---- MODULE Spec2Model ----
(***************************************************************************)
(* wayland-idle-helper: a state-machine model of                           *)
(* packages/desktop/resources/bin/wayland-idle-helper.c.                   *)
(*                                                                         *)
(* The process is one sequential program (main) whose position is pc.  The *)
(* compositor is the environment: it accepts or refuses the connection,    *)
(* advertises globals during the registry round-trip, delivers events to   *)
(* the dispatch loop and, at some point, drops the connection.             *)
(***************************************************************************)
EXTENDS Integers, Sequences, FiniteSets

VARIABLES argv, timeout_ms, pc, display, disconnects, proxies, registry,
          seat, notifier, notif, out, err, exitStatus, discovery, delivered

vars == <<argv, timeout_ms, pc, display, disconnects, proxies, registry,
          seat, notifier, notif, out, err, exitStatus, discovery, delivered>>

----------------------------------------------------------------------------
(* Bounds of the model.                                                    *)

\* Events the compositor delivers during the registry round-trip.
MaxGlobals == 2
\* Events the compositor delivers to the dispatch loop.
MaxEvents == 3

----------------------------------------------------------------------------
(* Integers.  A uint32_t is kept as its two 16-bit halves <<hi, lo>>, so   *)
(* that the narrowing of line 73 is computed with its real width.          *)

Half == 65536

U32(hi, lo) == <<hi, lo>>

U32Zero == U32(0, 0)

\* 0xFFFFFFFF
U32Max == U32(Half - 1, Half - 1)

\* (10 * u + d) mod 2^32, for a decimal digit d.
U32Push(u, d) ==
    LET l == 10 * u[2] + d
        h == 10 * u[1] + (l \div Half)
    IN  U32(h % Half, l % Half)

\* uint32_t timeout_ms = 10000;
DefaultTimeoutMs == 10000

----------------------------------------------------------------------------
(* Strings are sequences of one-character strings.                         *)

Digits == <<"0", "1", "2", "3", "4", "5", "6", "7", "8", "9">>

IsDigit(c) == \E i \in 1..10 : Digits[i] = c

DigitVal(c) == (CHOOSE i \in 1..10 : Digits[i] = c) - 1

IsSpace(c) == c \in {" ", "\t", "\n"}

\* The string without its leading white space.
RECURSIVE SkipSpace(_)
SkipSpace(s) ==
    IF s # <<>> /\ IsSpace(Head(s)) THEN SkipSpace(Tail(s)) ELSE s

\* The longest prefix of s made of decimal digits.
RECURSIVE DigitPrefix(_)
DigitPrefix(s) ==
    IF s # <<>> /\ IsDigit(Head(s))
    THEN <<Head(s)>> \o DigitPrefix(Tail(s))
    ELSE <<>>

\* A digit string without its leading zeros.
RECURSIVE StripZeros(_)
StripZeros(d) ==
    IF d # <<>> /\ Head(d) = "0" THEN StripZeros(Tail(d)) ELSE d

\* Lexicographic order of two digit strings of the same length.
RECURSIVE LexLess(_, _)
LexLess(a, b) ==
    /\ a # <<>>
    /\ \/ DigitVal(Head(a)) < DigitVal(Head(b))
       \/ Head(a) = Head(b) /\ LexLess(Tail(a), Tail(b))

\* a < b as natural numbers, for digit strings without leading zeros.
DecLess(a, b) ==
    \/ Len(a) < Len(b)
    \/ Len(a) = Len(b) /\ LexLess(a, b)

\* The low 32 bits of the natural number a digit string denotes.
RECURSIVE Low32From(_, _)
Low32From(acc, d) ==
    IF d = <<>> THEN acc ELSE Low32From(U32Push(acc, DigitVal(Head(d))), Tail(d))

Low32(d) == Low32From(U32Zero, d)

\* LONG_MAX + 1 = 2^63 on the LP64 targets the helper is built for.
LongLimit ==
    <<"9", "2", "2", "3", "3", "7", "2", "0", "3", "6",
      "8", "5", "4", "7", "7", "5", "8", "0", "8">>

(* A long is kept as its sign and its low 32 bits, which is all that       *)
(* lines 72-73 read of it.                                                 *)
Long(sign, low) == [sign |-> sign, low |-> low]

(* atol(3): optional white space, an optional sign, then the longest run   *)
(* of decimal digits; whatever follows is ignored and no digits give 0.  A *)
(* value a long cannot hold is undefined behaviour: the result is then any *)
(* long (LONG_MAX, LONG_MIN, 0 and 1 stand for the outcomes).              *)
atol(s) ==
    LET t    == SkipSpace(s)
        neg  == t # <<>> /\ Head(t) = "-"
        body == IF t # <<>> /\ Head(t) \in {"-", "+"} THEN Tail(t) ELSE t
        mag  == StripZeros(DigitPrefix(body))
    IN  IF mag = <<>> THEN {Long(0, U32Zero)}
        ELSE IF DecLess(mag, LongLimit)
             THEN {Long(IF neg THEN -1 ELSE 1, Low32(mag))}
        ELSE IF neg /\ mag = LongLimit
             THEN {Long(-1, U32Zero)}
        ELSE {Long(1, U32Max), Long(-1, U32Zero), Long(0, U32Zero),
              Long(1, U32(0, 1))}

\* The command lines of the model: argv without argv[0].
Arguments ==
    { <<>>,
      << <<>> >>,
      << <<"0">> >>,
      << <<"5">> >>,
      << <<"-", "5">> >>,
      << <<"+", "7">> >>,
      << <<" ", "4", "2">> >>,
      << <<"a", "b", "c">> >>,
      << <<"1", "2", "a", "b", "c">> >>,
      << <<"4", "2", "9", "4", "9", "6", "7", "2", "9", "6">> >>,
      << <<"4", "2", "9", "4", "9", "6", "7", "3", "0", "1">> >>,
      << <<"9", "9", "9", "9", "9", "9", "9", "9", "9", "9",
           "9", "9", "9", "9", "9", "9", "9", "9", "9", "9">> >> }

----------------------------------------------------------------------------
(* Protocol objects.                                                       *)

\* static struct wl_seat *seat = NULL;
NULL == 0

\* A compositor object bound or created by the client: a registry, a seat,
\* an idle notifier or an idle notification.  destroys counts the destroy
\* requests made on it; args are the arguments of the request that made it.
Proxy(kind, args) == [kind |-> kind, destroys |-> 0, args |-> args]

\* The interfaces a compositor advertises: the two the helper looks for and
\* one it has no use for.
Interfaces == {"wl_seat", "ext_idle_notifier_v1", "wl_output"}

\* Global names the compositor may put in a global_remove event.
Names == 1..(MaxGlobals + MaxEvents)

\* The tokens written to stdout.
READY == "READY"

IDLE == "IDLE"

RESUMED == "RESUMED"

\* The lines written to stderr, each as the sequence of its words.
ErrNoDisplay == <<"ERROR:", "Cannot", "connect", "to", "Wayland", "display">>

ErrNoSeat == <<"ERROR:", "No", "wl_seat", "found">>

ErrNoNotifier == <<"ERROR:", "ext_idle_notifier_v1", "not", "supported">>

\* exitStatus while main has not returned.
Running == -1

----------------------------------------------------------------------------
(* Callbacks.                                                              *)

\* on_idled as it would be if consecutive idle reports were coalesced.
on_idled_coalesced ==
    out' = IF out # <<>> /\ out[Len(out)] = IDLE THEN out ELSE Append(out, IDLE)

\* printf("IDLE\n"); fflush(stdout);
on_idled == out' = Append(out, IDLE)

\* printf("RESUMED\n"); fflush(stdout);
on_resumed == out' = Append(out, RESUMED)

\* registry_global as it would be without the !seat test of line 49.
registry_global_rebind(name, interface) ==
    IF interface = "wl_seat"
    THEN /\ proxies' = Append(proxies, Proxy("wl_seat", <<name>>))
         /\ seat' = Len(proxies) + 1
         /\ UNCHANGED notifier
    ELSE IF interface = "ext_idle_notifier_v1"
    THEN /\ proxies' = Append(proxies, Proxy("ext_idle_notifier_v1", <<name>>))
         /\ notifier' = Len(proxies) + 1
         /\ UNCHANGED seat
    ELSE UNCHANGED <<proxies, seat, notifier>>

(* The handler of a wl_registry.global event.  wl_registry_bind makes a    *)
(* new proxy; the seat is bound only while seat is NULL, the idle notifier *)
(* on every advertisement of it.                                           *)
registry_global(name, interface) ==
    IF interface = "wl_seat" /\ seat = NULL
    THEN /\ proxies' = Append(proxies, Proxy("wl_seat", <<name>>))
         /\ seat' = Len(proxies) + 1
         /\ UNCHANGED notifier
    ELSE IF interface = "ext_idle_notifier_v1"
    THEN /\ proxies' = Append(proxies, Proxy("ext_idle_notifier_v1", <<name>>))
         /\ notifier' = Len(proxies) + 1
         /\ UNCHANGED seat
    ELSE UNCHANGED <<proxies, seat, notifier>>

\* registry_global_remove as it would be if a removal dropped the handles.
registry_global_remove_unbinds(name) ==
    /\ seat' = NULL
    /\ notifier' = NULL
    /\ UNCHANGED proxies

\* The handler of a wl_registry.global_remove event: an empty body.
registry_global_remove(name) == UNCHANGED <<proxies, seat, notifier>>

----------------------------------------------------------------------------
(* Library requests main makes.                                            *)

\* ext_idle_notification_v1_destroy / ext_idle_notifier_v1_destroy
proxy_destroy(id) ==
    proxies' = [i \in DOMAIN proxies |->
                  IF i = id THEN [proxies[i] EXCEPT !.destroys = @ + 1]
                  ELSE proxies[i]]

\* wl_display_disconnect(display)
wl_display_disconnect ==
    /\ display' = "disconnected"
    /\ disconnects' = disconnects + 1

\* Lines 71-74: the values timeout_ms can have after the argument is read.
parse_timeout(av, dflt) ==
    IF Len(av) > 0
    THEN {IF val.sign > 0 THEN val.low ELSE dflt : val \in atol(av[1])}
    ELSE {dflt}

----------------------------------------------------------------------------
(* main                                                                    *)

Init ==
    /\ argv \in Arguments
    /\ timeout_ms = U32(0, DefaultTimeoutMs)
    /\ pc = "parse"
    /\ display = "null"
    /\ disconnects = 0
    /\ proxies = <<>>
    /\ registry = NULL
    /\ seat = NULL
    /\ notifier = NULL
    /\ notif = NULL
    /\ out = <<>>
    /\ err = <<>>
    /\ exitStatus = Running
    /\ discovery = <<>>
    /\ delivered = <<>>

\* Lines 71-74.
Parse ==
    /\ pc = "parse"
    /\ timeout_ms' \in parse_timeout(argv, timeout_ms)
    /\ pc' = "connect"
    /\ UNCHANGED <<argv, display, disconnects, proxies, registry, seat,
                   notifier, notif, out, err, exitStatus, discovery, delivered>>

\* Connect as it would be if line 79 returned 0.
Connect_returns_0 ==
    /\ pc = "connect"
    /\ \E reachable \in BOOLEAN :
         IF reachable
         THEN /\ display' = "connected"
              /\ pc' = "get_registry"
              /\ UNCHANGED <<err, exitStatus>>
         ELSE /\ err' = Append(err, ErrNoDisplay)
              /\ exitStatus' = 0
              /\ pc' = "done"
              /\ UNCHANGED display
    /\ UNCHANGED <<argv, timeout_ms, disconnects, proxies, registry, seat,
                   notifier, notif, out, discovery, delivered>>

\* Lines 76-80: the compositor is reachable or it is not.
Connect ==
    /\ pc = "connect"
    /\ \E reachable \in BOOLEAN :
         IF reachable
         THEN /\ display' = "connected"
              /\ pc' = "get_registry"
              /\ UNCHANGED <<err, exitStatus>>
         ELSE /\ err' = Append(err, ErrNoDisplay)
              /\ exitStatus' = 1
              /\ pc' = "done"
              /\ UNCHANGED display
    /\ UNCHANGED <<argv, timeout_ms, disconnects, proxies, registry, seat,
                   notifier, notif, out, discovery, delivered>>

\* Lines 82-83.
GetRegistry ==
    /\ pc = "get_registry"
    /\ proxies' = Append(proxies, Proxy("wl_registry", <<>>))
    /\ registry' = Len(proxies) + 1
    /\ pc' = "roundtrip"
    /\ UNCHANGED <<argv, timeout_ms, display, disconnects, seat, notifier,
                   notif, out, err, exitStatus, discovery, delivered>>

\* Line 84: a global event handled inside wl_display_roundtrip.
DiscoverGlobal ==
    /\ pc = "roundtrip"
    /\ Len(discovery) < MaxGlobals
    /\ \E interface \in Interfaces :
         /\ registry_global(Len(discovery) + 1, interface)
         /\ discovery' = Append(discovery, interface)
    /\ UNCHANGED <<argv, timeout_ms, pc, display, disconnects, registry,
                   notif, out, err, exitStatus, delivered>>

\* Line 84: a global_remove event handled inside wl_display_roundtrip.
DiscoverGlobalRemove ==
    /\ pc = "roundtrip"
    /\ Len(discovery) < MaxGlobals
    /\ \E name \in Names : registry_global_remove(name)
    /\ discovery' = Append(discovery, "global_remove")
    /\ UNCHANGED <<argv, timeout_ms, pc, display, disconnects, registry,
                   notif, out, err, exitStatus, delivered>>

\* RoundtripReturn as it would be if lines 86-95 were missing.
RoundtripReturn_skip_checks ==
    /\ pc = "roundtrip"
    /\ pc' = "subscribe"
    /\ UNCHANGED <<argv, timeout_ms, display, disconnects, proxies, registry,
                   seat, notifier, notif, out, err, exitStatus, discovery,
                   delivered>>

\* Line 84: wl_display_roundtrip returns (its result is not read).
RoundtripReturn ==
    /\ pc = "roundtrip"
    /\ pc' = "check_seat"
    /\ UNCHANGED <<argv, timeout_ms, display, disconnects, proxies, registry,
                   seat, notifier, notif, out, err, exitStatus, discovery,
                   delivered>>

\* CheckSeat as it would be without the test of line 86.
CheckSeat_unchecked ==
    /\ pc = "check_seat"
    /\ pc' = "check_notifier"
    /\ UNCHANGED <<argv, timeout_ms, display, disconnects, proxies, registry,
                   seat, notifier, notif, out, err, exitStatus, discovery,
                   delivered>>

\* Lines 86-90.
CheckSeat ==
    /\ pc = "check_seat"
    /\ IF seat = NULL
       THEN /\ err' = Append(err, ErrNoSeat)
            /\ wl_display_disconnect
            /\ exitStatus' = 1
            /\ pc' = "done"
       ELSE /\ pc' = "check_notifier"
            /\ UNCHANGED <<err, display, disconnects, exitStatus>>
    /\ UNCHANGED <<argv, timeout_ms, proxies, registry, seat, notifier, notif,
                   out, discovery, delivered>>

\* CheckNotifier as it would be without the test of line 91.
CheckNotifier_unchecked ==
    /\ pc = "check_notifier"
    /\ pc' = "subscribe"
    /\ UNCHANGED <<argv, timeout_ms, display, disconnects, proxies, registry,
                   seat, notifier, notif, out, err, exitStatus, discovery,
                   delivered>>

\* CheckNotifier as it would be with the message of line 87 copied to line 92.
CheckNotifier_seat_message ==
    /\ pc = "check_notifier"
    /\ IF notifier = NULL
       THEN /\ err' = Append(err, ErrNoSeat)
            /\ wl_display_disconnect
            /\ exitStatus' = 1
            /\ pc' = "done"
       ELSE /\ pc' = "subscribe"
            /\ UNCHANGED <<err, display, disconnects, exitStatus>>
    /\ UNCHANGED <<argv, timeout_ms, proxies, registry, seat, notifier, notif,
                   out, discovery, delivered>>

\* Lines 91-95.
CheckNotifier ==
    /\ pc = "check_notifier"
    /\ IF notifier = NULL
       THEN /\ err' = Append(err, ErrNoNotifier)
            /\ wl_display_disconnect
            /\ exitStatus' = 1
            /\ pc' = "done"
       ELSE /\ pc' = "subscribe"
            /\ UNCHANGED <<err, display, disconnects, exitStatus>>
    /\ UNCHANGED <<argv, timeout_ms, proxies, registry, seat, notifier, notif,
                   out, discovery, delivered>>

\* Lines 97-99.
Subscribe ==
    /\ pc = "subscribe"
    /\ proxies' = Append(proxies, Proxy("ext_idle_notification_v1",
                                        <<notifier, timeout_ms, seat>>))
    /\ notif' = Len(proxies) + 1
    /\ pc' = "ready"
    /\ UNCHANGED <<argv, timeout_ms, display, disconnects, registry, seat,
                   notifier, out, err, exitStatus, discovery, delivered>>

\* Lines 102-103.
Ready ==
    /\ pc = "ready"
    /\ out' = Append(out, READY)
    /\ pc' = "dispatch"
    /\ UNCHANGED <<argv, timeout_ms, display, disconnects, proxies, registry,
                   seat, notifier, notif, err, exitStatus, discovery,
                   delivered>>

\* Line 105: wl_display_dispatch hands an idled event to the listener.
DispatchIdled ==
    /\ pc = "dispatch"
    /\ Len(delivered) < MaxEvents
    /\ on_idled
    /\ delivered' = Append(delivered, "idled")
    /\ UNCHANGED <<argv, timeout_ms, pc, display, disconnects, proxies,
                   registry, seat, notifier, notif, err, exitStatus, discovery>>

\* Line 105: wl_display_dispatch hands a resumed event to the listener.
DispatchResumed ==
    /\ pc = "dispatch"
    /\ Len(delivered) < MaxEvents
    /\ on_resumed
    /\ delivered' = Append(delivered, "resumed")
    /\ UNCHANGED <<argv, timeout_ms, pc, display, disconnects, proxies,
                   registry, seat, notifier, notif, err, exitStatus, discovery>>

\* Line 105: a global advertised while the loop runs.
DispatchGlobal ==
    /\ pc = "dispatch"
    /\ Len(delivered) < MaxEvents
    /\ \E interface \in Interfaces :
         /\ registry_global(Len(discovery) + Len(delivered) + 1, interface)
         /\ delivered' = Append(delivered, interface)
    /\ UNCHANGED <<argv, timeout_ms, pc, display, disconnects, registry,
                   notif, out, err, exitStatus, discovery>>

\* Line 105: a global removed while the loop runs.
DispatchGlobalRemove ==
    /\ pc = "dispatch"
    /\ Len(delivered) < MaxEvents
    /\ \E name \in Names : registry_global_remove(name)
    /\ delivered' = Append(delivered, "global_remove")
    /\ UNCHANGED <<argv, timeout_ms, pc, display, disconnects, registry,
                   notif, out, err, exitStatus, discovery>>

\* Line 105: wl_display_dispatch returns -1 and the loop ends.
DispatchFail ==
    /\ pc = "dispatch"
    /\ pc' = "destroy_notif"
    /\ UNCHANGED <<argv, timeout_ms, display, disconnects, proxies, registry,
                   seat, notifier, notif, out, err, exitStatus, discovery,
                   delivered>>

\* DestroyNotif as it would be if line 109 were missing.
DestroyNotif_skipped ==
    /\ pc = "destroy_notif"
    /\ pc' = "destroy_notifier"
    /\ UNCHANGED <<argv, timeout_ms, display, disconnects, proxies, registry,
                   seat, notifier, notif, out, err, exitStatus, discovery,
                   delivered>>

\* Line 109.
DestroyNotif ==
    /\ pc = "destroy_notif"
    /\ proxy_destroy(notif)
    /\ pc' = "destroy_notifier"
    /\ UNCHANGED <<argv, timeout_ms, display, disconnects, registry, seat,
                   notifier, notif, out, err, exitStatus, discovery, delivered>>

\* DestroyNotifier as it would be if line 110 destroyed notif again.
DestroyNotifier_notif_again ==
    /\ pc = "destroy_notifier"
    /\ proxy_destroy(notif)
    /\ pc' = "disconnect"
    /\ UNCHANGED <<argv, timeout_ms, display, disconnects, registry, seat,
                   notifier, notif, out, err, exitStatus, discovery, delivered>>

\* Line 110.
DestroyNotifier ==
    /\ pc = "destroy_notifier"
    /\ proxy_destroy(notifier)
    /\ pc' = "disconnect"
    /\ UNCHANGED <<argv, timeout_ms, display, disconnects, registry, seat,
                   notifier, notif, out, err, exitStatus, discovery, delivered>>

\* Disconnect as it would be if line 112 returned 1.
Disconnect_returns_1 ==
    /\ pc = "disconnect"
    /\ wl_display_disconnect
    /\ exitStatus' = 1
    /\ pc' = "done"
    /\ UNCHANGED <<argv, timeout_ms, proxies, registry, seat, notifier, notif,
                   out, err, discovery, delivered>>

\* Lines 111-112.
Disconnect ==
    /\ pc = "disconnect"
    /\ wl_display_disconnect
    /\ exitStatus' = 0
    /\ pc' = "done"
    /\ UNCHANGED <<argv, timeout_ms, proxies, registry, seat, notifier, notif,
                   out, err, discovery, delivered>>

Next ==
    \/ Parse
    \/ Connect
    \/ GetRegistry
    \/ DiscoverGlobal
    \/ DiscoverGlobalRemove
    \/ RoundtripReturn
    \/ CheckSeat
    \/ CheckNotifier
    \/ Subscribe
    \/ Ready
    \/ DispatchIdled
    \/ DispatchResumed
    \/ DispatchGlobal
    \/ DispatchGlobalRemove
    \/ DispatchFail
    \/ DestroyNotif
    \/ DestroyNotifier
    \/ Disconnect

Spec == Init /\ [][Next]_vars

(* The steps of main, from the connection on, that do not wait for the     *)
(* compositor are always taken: main is one thread and none of these calls *)
(* blocks.  The round-trip and the dispatch loop wait for the compositor   *)
(* and get no such guarantee.                                              *)
MainStep ==
    \/ Connect
    \/ GetRegistry
    \/ CheckSeat
    \/ CheckNotifier
    \/ Subscribe
    \/ Ready
    \/ DestroyNotif
    \/ DestroyNotifier
    \/ Disconnect

Fairness == WF_vars(MainStep)

(* The fair runs are taken with the argument absent or "5": what they are  *)
(* checked for does not read the timeout.                                  *)
FairArguments == {<<>>, << <<"5">> >>}

FairInit == Init /\ argv \in FairArguments

FairSpec == FairInit /\ [][Next]_vars /\ Fairness

----------------------------------------------------------------------------
(* Vocabulary of the properties.                                           *)

Range(q) == {q[i] : i \in DOMAIN q}

Count(q, x) == Cardinality({i \in DOMAIN q : q[i] = x})

\* The proxies of one interface made so far.
Bound(kind) == {i \in DOMAIN proxies : proxies[i].kind = kind}

\* Line 103 has run: the subscription exists and main is past "ready".
ReadyWritten == notif # NULL /\ pc # "ready"

\* The positions of main while wl_display_roundtrip has not returned.
BeforeDiscovered == {"parse", "connect", "get_registry", "roundtrip"}

\* The discovery round took place and is over.
Discovered == display # "null" /\ pc \notin BeforeDiscovered

\* The token an idled or resumed event stands for.
TokenOf(e) == IF e = "idled" THEN IDLE ELSE RESUMED

\* The tokens of the idled and resumed events of an event log, in order.
RECURSIVE Tokens(_)
Tokens(log) ==
    IF log = <<>> THEN <<>>
    ELSE IF Head(log) \in {"idled", "resumed"}
         THEN <<TokenOf(Head(log))>> \o Tokens(Tail(log))
         ELSE Tokens(Tail(log))

IsErrorLine(line) == line # <<>> /\ Head(line) = "ERROR:"

----------------------------------------------------------------------------
(* Properties.                                                             *)

(* C1: READY is on stdout if and only if a seat and an idle notifier were  *)
(* bound and the subscription was created (the one position between lines  *)
(* 99 and 102 apart); READY is written at most once and nothing is written *)
(* before it.                                                              *)
C1_ReadyIffSubscribed ==
    /\ pc # "ready" =>
         (READY \in Range(out) <=>
            /\ Bound("wl_seat") # {}
            /\ Bound("ext_idle_notifier_v1") # {}
            /\ Bound("ext_idle_notification_v1") # {})
    /\ READY \in Range(out) => seat # NULL /\ notifier # NULL /\ notif # NULL
    /\ Count(out, READY) <= 1
    /\ out # <<>> => out[1] = READY

\* READY was written, tokens followed it and the process has exited.
C1_Witness ==
    /\ pc = "done"
    /\ Len(out) > 1
    /\ out[1] = READY
    /\ Bound("ext_idle_notification_v1") # {}

(* C2: stdout is READY followed by one token per idled or resumed event    *)
(* delivered, in the order of delivery; nothing is delivered before READY; *)
(* seat, idle notifier, idled, resumed gives READY, IDLE, RESUMED.         *)
C2_TokensMirrorEvents ==
    /\ ~ReadyWritten => out = <<>> /\ delivered = <<>>
    /\ ReadyWritten => out = <<READY>> \o Tokens(delivered)
    /\ (/\ discovery = <<"wl_seat", "ext_idle_notifier_v1">>
        /\ delivered = <<"idled", "resumed">>) => out = <<READY, IDLE, RESUMED>>

\* Two idled events with no resumed between them, then a resumed event.
C2_Witness ==
    /\ discovery = <<"wl_seat", "ext_idle_notifier_v1">>
    /\ delivered = <<"idled", "idled", "resumed">>
    /\ out = <<READY, IDLE, IDLE, RESUMED>>

(* C3: when the round-trip has returned with no seat advertised, READY is  *)
(* never written, and once the test of line 86 has run the process has     *)
(* exited with status 1 and stderr is the one line "ERROR: No wl_seat      *)
(* found".                                                                 *)
C3_NoSeat ==
    (Discovered /\ "wl_seat" \notin Range(discovery)) =>
        /\ READY \notin Range(out)
        /\ pc \in {"check_seat", "done"}
        /\ pc = "check_seat" => err = <<>> /\ exitStatus = Running
        /\ pc = "done" =>
             /\ Len(err) = 1
             /\ IsErrorLine(err[1])
             /\ "wl_seat" \in Range(err[1])
             /\ exitStatus # 0
             /\ exitStatus # Running

\* The process has exited for lack of a seat although an idle notifier was
\* advertised.
C3_Witness ==
    /\ pc = "done"
    /\ "wl_seat" \notin Range(discovery)
    /\ "ext_idle_notifier_v1" \in Range(discovery)
    /\ err = <<ErrNoSeat>>
    /\ exitStatus = 1

(* C4: when the round-trip has returned with a seat but no idle notifier   *)
(* advertised, READY is never written, and once the test of line 91 has    *)
(* run the process has exited with status 1 and stderr is the one line     *)
(* "ERROR: ext_idle_notifier_v1 not supported".                            *)
C4_NoNotifier ==
    (/\ Discovered
     /\ "wl_seat" \in Range(discovery)
     /\ "ext_idle_notifier_v1" \notin Range(discovery)) =>
        /\ READY \notin Range(out)
        /\ pc \in {"check_seat", "check_notifier", "done"}
        /\ pc # "done" => err = <<>> /\ exitStatus = Running
        /\ pc = "done" =>
             /\ Len(err) = 1
             /\ IsErrorLine(err[1])
             /\ "ext_idle_notifier_v1" \in Range(err[1])
             /\ exitStatus # 0
             /\ exitStatus # Running

\* The process has exited for lack of an idle notifier with a seat bound.
C4_Witness ==
    /\ pc = "done"
    /\ "wl_seat" \in Range(discovery)
    /\ "ext_idle_notifier_v1" \notin Range(discovery)
    /\ err = <<ErrNoNotifier>>
    /\ exitStatus = 1

(* C5: a process that has exited after the dispatch loop ended has a       *)
(* nonzero exit status.                                                    *)
C5_DispatchFailureExitsNonzero ==
    (pc = "done" /\ notif # NULL) => exitStatus # 0

(* C6: the connection is disconnected at most once, exactly once by the    *)
(* time a process that had connected exits and never when the connection   *)
(* failed, and no proxy is destroyed more than once.                       *)
C6_DisconnectOnce ==
    /\ disconnects <= 1
    /\ display = "null" => disconnects = 0
    /\ display = "connected" => disconnects = 0 /\ pc # "done"
    /\ display = "disconnected" => disconnects = 1 /\ pc = "done"
    /\ \A i \in DOMAIN proxies : proxies[i].destroys <= 1

\* The process has exited after the dispatch loop, having destroyed the
\* subscription and the idle notifier.
C6_Witness ==
    /\ pc = "done"
    /\ disconnects = 1
    /\ notif # NULL
    /\ proxies[notif].destroys = 1
    /\ proxies[notifier].destroys = 1

(* C7: once the connection is disconnected, every seat, idle notifier and  *)
(* idle notification made from it has been destroyed.                      *)
C7_NothingLiveAtDisconnect ==
    display = "disconnected" =>
        \A i \in Bound("wl_seat") \cup Bound("ext_idle_notifier_v1")
                  \cup Bound("ext_idle_notification_v1") :
            proxies[i].destroys > 0

\* 2^32
TwoPow32 == <<"4", "2", "9", "4", "9", "6", "7", "2", "9", "6">>

\* The digits of an argument: what follows its leading white space and an
\* optional plus sign.
Numeral(s) ==
    LET t == SkipSpace(s)
    IN  IF t # <<>> /\ Head(t) = "+" THEN Tail(t) ELSE t

\* s is a positive base-10 integer: nothing but decimal digits, not all 0.
IsPositiveDecimal(s) ==
    /\ Numeral(s) # <<>>
    /\ \A i \in DOMAIN Numeral(s) : IsDigit(Numeral(s)[i])
    /\ StripZeros(Numeral(s)) # <<>>

(* C8: the timeout given to the subscription is the value of the argument  *)
(* when the argument is a positive base-10 integer, and 10000 when it is   *)
(* absent, zero, negative or malformed.                                    *)
C8_EffectiveTimeout ==
    notif # NULL =>
        IF Len(argv) > 0 /\ IsPositiveDecimal(argv[1])
        THEN /\ DecLess(StripZeros(Numeral(argv[1])), TwoPow32)
             /\ proxies[notif].args[2] = Low32(Numeral(argv[1]))
        ELSE proxies[notif].args[2] = U32(0, DefaultTimeoutMs)

(* C9: the timeout given to the subscription is greater than 0.            *)
C9_TimeoutPositive ==
    notif # NULL => proxies[notif].args[2] # U32Zero

(* C10: at most one seat is ever bound; it is the first seat advertised,   *)
(* and it stays the value of seat whatever is advertised later.            *)
C10_OneSeat ==
    LET log   == discovery \o delivered
        seats == {i \in DOMAIN log : log[i] = "wl_seat"}
    IN  /\ Cardinality(Bound("wl_seat")) <= 1
        /\ seats = {} => seat = NULL /\ Bound("wl_seat") = {}
        /\ seats # {} =>
             /\ Bound("wl_seat") = {seat}
             /\ \A i \in seats : proxies[seat].args[1] <= i
             /\ proxies[seat].args[1] \in seats

\* The seat was advertised twice and the first advertisement is the one
\* bound.
C10_Witness ==
    /\ Count(discovery \o delivered, "wl_seat") = 2
    /\ Cardinality(Bound("wl_seat")) = 1
    /\ proxies[seat].args = <<1>>

(* C11: once an idle notifier has been advertised, exactly one idle        *)
(* notifier proxy has been bound, however often it was advertised.         *)
C11_OneNotifier ==
    "ext_idle_notifier_v1" \in Range(discovery \o delivered) =>
        Cardinality(Bound("ext_idle_notifier_v1")) = 1

(* C12: the subscription is made only after wl_display_roundtrip has       *)
(* returned, from a bound idle notifier and a bound seat, and after every  *)
(* global of the discovery round has been handled: a seat is bound if one  *)
(* was advertised, there is one idle notifier proxy for each advertisement *)
(* of it, and all of them are older than the subscription.                 *)
C12_SubscribeAfterDiscovery ==
    /\ pc \in BeforeDiscovered \cup {"check_seat", "check_notifier",
                                      "subscribe"} =>
         notif = NULL /\ Bound("ext_idle_notification_v1") = {}
    /\ Bound("ext_idle_notification_v1") # {} =>
         /\ Discovered
         /\ Bound("ext_idle_notification_v1") = {notif}
         /\ proxies[notif].args[1] \in Bound("ext_idle_notifier_v1")
         /\ proxies[notif].args[3] \in Bound("wl_seat")
         /\ "wl_seat" \in Range(discovery)
         /\ Cardinality({i \in Bound("ext_idle_notifier_v1") : i < notif})
              = Count(discovery, "ext_idle_notifier_v1")
         /\ \A i \in Bound("wl_seat") \cup Bound("ext_idle_notifier_v1") :
              proxies[i].args[1] <= Len(discovery) => i < notif

\* The subscription exists, made after a round in which the idle notifier
\* was advertised before the seat.
C12_Witness ==
    /\ notif # NULL
    /\ discovery = <<"ext_idle_notifier_v1", "wl_seat">>
    /\ proxies[notif].args[1] = notifier
    /\ proxies[notif].args[3] = seat

(* C13: once the subscription exists, no proxy is bound any more and seat  *)
(* and notifier are the handles the subscription was made from.            *)
C13_NoBindAfterSubscribe ==
    notif # NULL =>
        /\ notifier = proxies[notif].args[1]
        /\ seat = proxies[notif].args[3]
        /\ \A i \in DOMAIN proxies : i <= notif

\* The events of the registry that call for no action: a removed global and
\* a global of an interface the helper has no use for.
IsIgnoredEvent(e) == e \in {"global_remove", "wl_output"}

\* This step delivers one event of the registry that calls for no action.
IgnoredEventStep ==
    \/ /\ Len(discovery') = Len(discovery) + 1
       /\ IsIgnoredEvent(discovery'[Len(discovery')])
    \/ /\ Len(delivered') = Len(delivered) + 1
       /\ IsIgnoredEvent(delivered'[Len(delivered')])

(* C14: a global_remove event, and a global of an unrecognized interface,  *)
(* whether handled in the round-trip or in the dispatch loop, changes no   *)
(* handle, no proxy, neither stdout nor stderr, and neither the position   *)
(* of main nor its exit status.                                            *)
C14_IgnoredEventsChangeNothing ==
    [][IgnoredEventStep =>
         UNCHANGED <<seat, notifier, notif, registry, proxies, out, err, pc,
                     display, disconnects, exitStatus, timeout_ms>>]_vars

\* A removal and an unrecognized global were delivered to the dispatch loop
\* with the handles bound and the subscription made.
C14_Witness ==
    /\ "global_remove" \in Range(delivered)
    /\ "wl_output" \in Range(delivered)
    /\ seat # NULL
    /\ notifier # NULL
    /\ notif # NULL
    /\ err = <<>>

\* The positions of main after the dispatch loop.
Teardown == {"destroy_notif", "destroy_notifier", "disconnect"}

\* This step is the end of the dispatch loop: wl_display_dispatch returned
\* -1 and nothing but the position of main changed.
LoopEnds ==
    /\ pc' = "destroy_notif"
    /\ delivered' = delivered
    /\ UNCHANGED <<seat, notifier, notif, proxies, out, err, display,
                   disconnects, exitStatus>>

\* Once the loop has ended main stays in the teardown or has exited, and a
\* connection that was disconnected stays so.
NoRetry ==
    /\ (pc \in Teardown \cup {"done"}) => (pc' \in Teardown \cup {"done"})
    /\ display = "disconnected" => display' = "disconnected"

(* C15: main leaves the dispatch loop only by the failure of               *)
(* wl_display_dispatch, never by handling an event; after it the           *)
(* subscription is destroyed first, then the idle notifier, then the       *)
(* connection is disconnected; main never returns to the loop or to        *)
(* connecting, and once the loop has ended the process exits.              *)
C15_LoopEndsOnlyOnFailure ==
    /\ [][(pc = "dispatch" /\ pc' # "dispatch") => LoopEnds]_vars
    /\ [][NoRetry]_vars
    /\ [](pc = "destroy_notifier" =>
            /\ proxies[notif].destroys = 1
            /\ proxies[notifier].destroys = 0
            /\ display = "connected")
    /\ [](pc = "disconnect" =>
            /\ proxies[notif].destroys = 1
            /\ proxies[notifier].destroys = 1
            /\ display = "connected")
    /\ [](pc = "done" /\ notif # NULL =>
            /\ proxies[notif].destroys = 1
            /\ proxies[notifier].destroys = 1
            /\ display = "disconnected")
    /\ (pc = "destroy_notif" ~> pc = "done")

\* The loop handled events, ended, and the process has exited after the
\* teardown.
C15_Witness ==
    /\ pc = "done"
    /\ notif # NULL
    /\ Len(delivered) > 1
    /\ proxies[notif].destroys = 1
    /\ proxies[notifier].destroys = 1
    /\ display = "disconnected"

(* C16: a process that has exited because the connection failed wrote the *)
(* one line "ERROR: Cannot connect to Wayland display", has status 1, made *)
(* no registry, no bind, no subscription and no disconnect, and wrote      *)
(* nothing to stdout.                                                      *)
C16_ConnectFailure ==
    (pc = "done" /\ display = "null") =>
        /\ Len(err) = 1
        /\ IsErrorLine(err[1])
        /\ exitStatus = 1
        /\ registry = NULL
        /\ proxies = <<>>
        /\ notif = NULL
        /\ disconnects = 0
        /\ out = <<>>
        /\ discovery = <<>>

\* The connection failed and the process has exited.
C16_Witness ==
    /\ pc = "done"
    /\ display = "null"
    /\ err = <<ErrNoDisplay>>
    /\ exitStatus = 1

(* C17: a process that has exited wrote exactly one ERROR: line and has a  *)
(* nonzero exit status.                                                    *)
C17_OneErrorLinePerExit ==
    pc = "done" =>
        /\ Len(err) = 1
        /\ IsErrorLine(err[1])
        /\ exitStatus # 0

(* C18: no run writes both to stdout and to stderr; a process that has     *)
(* exited has status 0 exactly when READY was written, and status 1        *)
(* exactly when stdout is empty and stderr is one ERROR: line.             *)
C18_StatusMatchesOutput ==
    /\ ~(out # <<>> /\ err # <<>>)
    /\ pc = "done" =>
         /\ exitStatus \in {0, 1}
         /\ exitStatus = 0 <=> READY \in Range(out)
         /\ exitStatus = 1 <=>
              (out = <<>> /\ Len(err) = 1 /\ IsErrorLine(err[1]))

\* The process has exited with status 0 after writing READY and tokens.
C18_Witness ==
    /\ pc = "done"
    /\ exitStatus = 0
    /\ Len(out) > 1
    /\ READY \in Range(out)
    /\ err = <<>>

====
